---------------------------- MODULE Spec2Model ----------------------------
(***************************************************************************)
(* A model of src/main.rs of bevy_a_star: the occupancy Grid (bounds       *)
(* checked position-to-index mapping and cell storage), the GridEditor /   *)
(* GridView handles that share it through an Arc, the randomized mutator   *)
(* (randomize_cells) and the synchronizer (update_cells).                  *)
(*                                                                         *)
(* Machine integers keep their width.  A u32 (and the usize values the     *)
(* code derives from u32 values) is a pair <<hi, lo>> of 16-bit limbs      *)
(* standing for hi * 65536 + lo; an i32 is an integer in -2^31 .. 2^31-1.  *)
(***************************************************************************)
EXTENDS Integers, Sequences, FiniteSets

VARIABLES
    overflow_checks,  \* build profile: TRUE when arithmetic overflow panics
    grid,             \* the Grid inside the Arc of the GridEditor
    views,            \* number of GridView components cloned from that Arc
    marker,           \* the CellChangeEvent component of the editor entity
    sprites,          \* the cell entities (CellPos, Sprite colour), in order
    ret,              \* the last operation: its name, arguments and result
    status            \* "startup", "running", or "panicked" after a panic

vars == <<overflow_checks, grid, views, marker, sprites, ret, status>>

(***************************************************************************)
(* Bounds of the model.                                                    *)
(***************************************************************************)
MaxSide == 2
MaxCells == 4
MaxSyncCells == 2
MaxViews == 1
MaxChildren == 1

(***************************************************************************)
(* u32 and i32 arithmetic.                                                 *)
(***************************************************************************)
Limb == 65536

HalfLimb == Limb \div 2

Byte == 256

\* The u32 whose value is the natural number n (n below 2^31).
U32(n) == <<n \div Limb, n % Limb>>

\* The value of a u32 below 2^31 as a natural number.
Nat32(u) == u[1] * Limb + u[2]

\* a < b on u32 values.
lt_u32(a, b) == a[1] < b[1] \/ (a[1] = b[1] /\ a[2] < b[2])

\* `u as i32`: the same 32 bits read as two's complement.
as_i32(u) == IF u[1] < HalfLimb THEN u[1] * Limb + u[2]
             ELSE (u[1] - Limb) * Limb + u[2]

\* `i as u32`: the same 32 bits read as unsigned.
as_u32(i) == IF i >= 0 THEN <<i \div Limb, i % Limb>>
             ELSE <<(i \div Limb) + Limb, i % Limb>>

\* `u as usize`: zero extension, the value is kept.
as_usize(u) == u

\* The exact product of two 16-bit limbs, as a u32.
mul_limb(a, b) ==
    LET p0 == (a % Byte) * b
        p1 == (a \div Byte) * b
        lo == (p1 % Byte) * Byte + (p0 % Limb)
    IN  <<(p1 \div Byte) + (p0 \div Limb) + (lo \div Limb), lo % Limb>>

\* a * b on u32: the wrapped product and whether the true product overflowed.
mul_u32(a, b) ==
    LET ll == mul_limb(a[2], b[2])
        hl == mul_limb(a[1], b[2])
        lh == mul_limb(a[2], b[1])
        hi == ll[1] + hl[2] + lh[2]
    IN  [val |-> <<hi % Limb, ll[2]>>,
         overflow |-> (a[1] > 0 /\ b[1] > 0) \/ hl[1] > 0 \/ lh[1] > 0
                      \/ hi >= Limb]

\* a + b on u32: the wrapped sum and whether the true sum overflowed.
add_u32(a, b) ==
    LET lo == a[2] + b[2]
        hi == a[1] + b[1] + (lo \div Limb)
    IN  [val |-> <<hi % Limb, lo % Limb>>, overflow |-> hi >= Limb]

(***************************************************************************)
(* Values.                                                                 *)
(***************************************************************************)
CellPos(x, y) == <<x, y>>

Cell(is_wall) == [is_wall |-> is_wall]

OutOfBounds(cell_pos) == [cell_pos |-> cell_pos]

Ok(v) == [tag |-> "Ok", val |-> v]

Err(e) == [tag |-> "Err", val |-> e]

\* A panic unwinding out of the call, with its message.
Panic(msg) == [tag |-> "Panic", val |-> msg]

\* Vec<Cell>: its length and the indices of the cells whose is_wall is true;
\* every other index below len holds Cell {is_wall: false}.
Vec(len, walls) == [len |-> len, walls |-> walls]

\* self.cells[index]: panics when index >= len.
vec_index(v, index) ==
    IF lt_u32(index, v.len) THEN Ok(Cell(index \in v.walls))
    ELSE Panic("index out of bounds")

\* self.cells.get_mut(index): Some(slot) or None.
vec_get_mut(v, index) ==
    IF lt_u32(index, v.len) THEN [tag |-> "Some", val |-> index]
    ELSE [tag |-> "None", val |-> index]

\* Mutant of write_cell: a write that can set is_wall but never clear it.
write_cell_set_only(g, index, c) ==
    [g EXCEPT !.cells.walls = IF c.is_wall THEN @ \cup {index} ELSE @]

\* A write of `cell` through the &mut Cell that names slot `index`.
write_cell(g, index, c) ==
    [g EXCEPT !.cells.walls = IF c.is_wall THEN @ \cup {index} ELSE @ \ {index}]

(***************************************************************************)
(* impl Grid                                                               *)
(***************************************************************************)
\* Mutant of new: width * width cells.
new_square(width, height) ==
    LET n == mul_u32(width, width)
    IN  IF overflow_checks /\ n.overflow
        THEN Panic("attempt to multiply with overflow")
        ELSE Ok([width |-> width, height |-> height,
                 cells |-> Vec(as_usize(n.val), {})])

new(width, height) ==
    LET n == mul_u32(height, width)
    IN  IF overflow_checks /\ n.overflow
        THEN Panic("attempt to multiply with overflow")
        ELSE Ok([width |-> width, height |-> height,
                 cells |-> Vec(as_usize(n.val), {})])

\* Mutant of contains_pos: the upper limits are inclusive.
contains_pos_inclusive(g, cell_pos) ==
    LET x == cell_pos[1]
        y == cell_pos[2]
    IN  x >= 0 /\ x <= as_i32(g.width) /\ y >= 0 /\ y <= as_i32(g.height)

contains_pos(g, cell_pos) ==
    LET x == cell_pos[1]
        y == cell_pos[2]
    IN  x >= 0 /\ x < as_i32(g.width) /\ y >= 0 /\ y < as_i32(g.height)

\* Mutant of cell_pos_to_index: rows of length height.
cell_pos_to_index_by_height(g, cell_pos) ==
    IF ~contains_pos(g, cell_pos) THEN Err(OutOfBounds(cell_pos))
    ELSE LET x == as_u32(cell_pos[1])
             y == as_u32(cell_pos[2])
             m == mul_u32(g.height, y)
             s == add_u32(m.val, x)
         IN  IF overflow_checks /\ m.overflow
             THEN Panic("attempt to multiply with overflow")
             ELSE IF overflow_checks /\ s.overflow
             THEN Panic("attempt to add with overflow")
             ELSE Ok(as_usize(s.val))

cell_pos_to_index(g, cell_pos) ==
    IF ~contains_pos(g, cell_pos) THEN Err(OutOfBounds(cell_pos))
    ELSE LET x == as_u32(cell_pos[1])
             y == as_u32(cell_pos[2])
             m == mul_u32(g.width, y)
             s == add_u32(m.val, x)
         IN  IF overflow_checks /\ m.overflow
             THEN Panic("attempt to multiply with overflow")
             ELSE IF overflow_checks /\ s.overflow
             THEN Panic("attempt to add with overflow")
             ELSE Ok(as_usize(s.val))

cell(g, cell_pos) ==
    LET index == cell_pos_to_index(g, cell_pos)
    IN  IF index.tag # "Ok" THEN index
        ELSE vec_index(g.cells, index.val)

\* The &mut Cell is modelled by the slot it names.
cell_mut(g, cell_pos) ==
    LET index == cell_pos_to_index(g, cell_pos)
    IN  IF index.tag # "Ok" THEN index
        ELSE LET slot == vec_get_mut(g.cells, index.val)
             IN  IF slot.tag = "None"
                 THEN Panic("unwrap on a None value")
                 ELSE Ok(slot.val)

\* The result and the grid after the call.
set_cell(g, cell_pos, c) ==
    LET slot == cell_mut(g, cell_pos)
    IN  IF slot.tag # "Ok" THEN [result |-> slot, grid |-> g]
        ELSE [result |-> Ok("self"), grid |-> write_cell(g, slot.val, c)]

\* Mutant of range: the range 0..=n.
range_inclusive(n) == [i \in 1 .. Nat32(n) + 1 |-> U32(i - 1)]

\* The range 0..n of u32 values, in order.
range(n) == [i \in 1 .. Nat32(n) |-> U32(i - 1)]

\* cartesian_product of itertools: the first sequence varies slowest.
cartesian_product(a, b) ==
    [k \in 1 .. Len(a) * Len(b) |->
        <<a[((k - 1) \div Len(b)) + 1], b[((k - 1) % Len(b)) + 1]>>]

\* The items of the iterator when it is run to its end, or the panic of
\* its expect.
iter_cell_pos(g) ==
    LET xy == cartesian_product(range(g.width), range(g.height))
        pos(k) == CellPos(as_i32(xy[k][1]), as_i32(xy[k][2]))
    IN  IF \E k \in 1 .. Len(xy) : cell(g, pos(k)).tag # "Ok"
        THEN Panic("Internal iterator operating on known size")
        ELSE Ok([k \in 1 .. Len(xy) |-> <<pos(k), cell(g, pos(k)).val>>])

(***************************************************************************)
(* The world: one editor entity holding the Arc<Grid>, the GridView        *)
(* components cloned from it, and the cell entities, which are the         *)
(* children update_cells visits for that grid.                             *)
(***************************************************************************)
\* The (width, height) pairs of the grids of at most n cells whose sides
\* are at most MaxSide.
Dims(n) ==
    {<<U32(d[1]), U32(d[2])>> :
        d \in {e \in (0 .. MaxSide) \X (0 .. MaxSide) : e[1] * e[2] <= n}}

\* The positions inside grid g and the ring of positions just outside it.
Probe(g) ==
    {CellPos(x, y) : x \in -1 .. Nat32(g.width), y \in -1 .. Nat32(g.height)}

Cells == {Cell(FALSE), Cell(TRUE)}

NoEvent == [tag |-> "None", val |-> CellPos(0, 0)]

CellChangeEvent(cell_pos) == [tag |-> "Some", val |-> cell_pos]

\* A record of one operation: its name, its arguments and what it returned.
Call(op, args, result) == [op |-> op, args |-> args, result |-> result]

NoArgs == [none |-> TRUE]

\* What a call returned, as the record kept of it: `ok` for Ok(..), else
\* the error or the panic message.
Returned(r, ok) ==
    IF r.tag = "Ok" THEN ok
    ELSE IF r.tag = "Err" THEN [tag |-> "Err", err |-> r.val]
    ELSE [tag |-> "Panic", msg |-> r.val]

Unit == [tag |-> "Ok", unit |-> TRUE]

\* A panic inside a system or a call ends the program.
after(result) == IF result.tag = "Panic" THEN "panicked" ELSE "running"

Init ==
    /\ overflow_checks \in BOOLEAN
    /\ grid = [width |-> U32(0), height |-> U32(0), cells |-> Vec(U32(0), {})]
    /\ views = 0
    /\ marker = NoEvent
    /\ sprites = <<>>
    /\ ret = Call("main", NoArgs, Unit)
    /\ status = "startup"

\* The startup system: Grid::new, wrapped in the Arc of a GridEditor.  The
\* source builds Grid::new(300, 300); the model takes the sides as inputs.
spawn_grid(width, height) ==
    /\ status = "startup"
    /\ LET g == new(width, height)
       IN  /\ grid' = IF g.tag = "Ok" THEN g.val ELSE grid
           /\ ret' = Call("spawn_grid", [width |-> width, height |-> height],
                       Returned(g, [tag |-> "Ok", grid |-> g.val]))
           /\ status' = after(g)
    /\ UNCHANGED <<overflow_checks, views, marker, sprites>>

\* Arc::get_mut: Some only for the one and only strong reference.
Arc_get_mut(strong_count) ==
    IF strong_count = 1 THEN [tag |-> "Some", val |-> "grid"]
    ELSE [tag |-> "None", val |-> "grid"]

\* A GridView component: one more strong reference to the grid.
spawn_view ==
    /\ status = "running"
    /\ views < MaxViews
    /\ views' = views + 1
    /\ ret' = Call("GridView", NoArgs, Unit)
    /\ UNCHANGED <<overflow_checks, grid, marker, sprites, status>>

call_cell_pos_to_index(cell_pos) ==
    /\ status = "running"
    /\ LET r == cell_pos_to_index(grid, cell_pos)
       IN  /\ ret' = Call("cell_pos_to_index", [cell_pos |-> cell_pos],
                       Returned(r, [tag |-> "Ok", index |-> r.val]))
           /\ status' = after(r)
    /\ UNCHANGED <<overflow_checks, grid, views, marker, sprites>>

call_cell(cell_pos) ==
    /\ status = "running"
    /\ LET r == cell(grid, cell_pos)
       IN  /\ ret' = Call("cell", [cell_pos |-> cell_pos],
                       Returned(r, [tag |-> "Ok", cell |-> r.val]))
           /\ status' = after(r)
    /\ UNCHANGED <<overflow_checks, grid, views, marker, sprites>>

call_iter_cell_pos ==
    /\ status = "running"
    /\ LET r == iter_cell_pos(grid)
       IN  /\ ret' = Call("iter_cell_pos", NoArgs,
                       Returned(r, [tag |-> "Ok", items |-> r.val]))
           /\ status' = after(r)
    /\ UNCHANGED <<overflow_checks, grid, views, marker, sprites>>

\* A &mut Grid exists only while the Arc has no other holder.
call_set_cell(cell_pos, c) ==
    /\ status = "running"
    /\ Arc_get_mut(1 + views).tag = "Some"
    /\ LET r == set_cell(grid, cell_pos, c)
       IN  /\ grid' = r.grid
           /\ ret' = Call("set_cell", [cell_pos |-> cell_pos, cell |-> c],
                       Returned(r.result, Unit))
           /\ status' = after(r.result)
    /\ UNCHANGED <<overflow_checks, views, marker, sprites>>

\* cell_mut and a write of is_wall through the reference it returns.
call_cell_mut(cell_pos, c) ==
    /\ status = "running"
    /\ Arc_get_mut(1 + views).tag = "Some"
    /\ LET r == cell_mut(grid, cell_pos)
       IN  /\ grid' = IF r.tag = "Ok" THEN write_cell(grid, r.val, c) ELSE grid
           /\ ret' = Call("cell_mut", [cell_pos |-> cell_pos, cell |-> c],
                       Returned(r, [tag |-> "Ok", slot |-> r.val]))
           /\ status' = after(r)
    /\ UNCHANGED <<overflow_checks, views, marker, sprites>>

\* Mutant of gen_range: a value of 0..=n.
gen_range_inclusive(n) == {U32(i) : i \in 0 .. Nat32(n)}

\* rng.gen_range(0..n): any value of the range; an empty range panics.
gen_range(n) == {U32(i) : i \in 0 .. Nat32(n) - 1}

\* The system from `let cell_pos` on, with the random source having
\* returned x and y: its result, the grid and the CellChangeEvent component
\* of the editor entity after it.  The insert queued on Commands is applied
\* with the system.
randomize_with(g, ev, x, y) ==
    LET cell_pos == CellPos(as_i32(x), as_i32(y))
        c == cell(g, cell_pos)
        slot == cell_mut(g, cell_pos)
        fail == [result |-> Panic("unwrap on an Err value"), grid |-> g,
                 marker |-> ev, cell_pos |-> cell_pos]
    IN  IF c.tag # "Ok" THEN fail
        ELSE IF slot.tag # "Ok" THEN fail
        ELSE [result |-> Ok("mutated"),
              grid |-> write_cell(g, slot.val, Cell(~c.val.is_wall)),
              marker |-> CellChangeEvent(cell_pos),
              cell_pos |-> cell_pos]

randomize_cells ==
    /\ status = "running"
    /\ IF Arc_get_mut(1 + views).tag = "None"
       THEN /\ ret' = Call("randomize_cells", NoArgs,
                           Returned(Panic("unwrap on a None value"), Unit))
            /\ status' = "panicked"
            /\ UNCHANGED <<grid, marker>>
       ELSE IF gen_range(grid.width) = {} \/ gen_range(grid.height) = {}
       THEN /\ ret' = Call("randomize_cells", NoArgs,
                           Returned(Panic("cannot sample empty range"), Unit))
            /\ status' = "panicked"
            /\ UNCHANGED <<grid, marker>>
       ELSE \E x \in gen_range(grid.width), y \in gen_range(grid.height) :
                LET r == randomize_with(grid, marker, x, y)
                IN  /\ grid' = r.grid
                    /\ marker' = r.marker
                    /\ ret' = Call("randomize_cells",
                                   [cell_pos |-> r.cell_pos],
                                   Returned(r.result, Unit))
                    /\ status' = after(r.result)
    /\ UNCHANGED <<overflow_checks, views, sprites>>

\* A CellBundle child of the grid entity; Sprite::default() is white.
spawn_cell(cell_pos) ==
    /\ status = "running"
    /\ Len(sprites) < MaxChildren
    /\ sprites' = Append(sprites, [cell_pos |-> cell_pos, color |-> "WHITE"])
    /\ ret' = Call("CellBundle", [cell_pos |-> cell_pos], Unit)
    /\ UNCHANGED <<overflow_checks, grid, views, marker, status>>

\* The colour update_cells gives the sprite of a cell.
color_of(c) == IF c.is_wall THEN "BLUE" ELSE "RED"

\* Mutant of update_from: a child outside the grid is skipped.
RECURSIVE update_from_skipping(_, _, _)
update_from_skipping(g, sp, i) ==
    IF i > Len(sp) THEN [result |-> Ok("done"), sprites |-> sp]
    ELSE LET c == cell(g, sp[i].cell_pos)
         IN  IF c.tag # "Ok" THEN update_from_skipping(g, sp, i + 1)
             ELSE update_from_skipping(g,
                      [sp EXCEPT ![i].color = color_of(c.val)],
                      i + 1)

\* The loop over the children, from child i on: it stops at the first unwrap
\* that fails, with the earlier children already recoloured.
RECURSIVE update_from(_, _, _)
update_from(g, sp, i) ==
    IF i > Len(sp) THEN [result |-> Ok("done"), sprites |-> sp]
    ELSE LET c == cell(g, sp[i].cell_pos)
         IN  IF c.tag # "Ok"
             THEN [result |-> Panic("unwrap on an Err value"), sprites |-> sp]
             ELSE update_from(g,
                      [sp EXCEPT ![i].color = color_of(c.val)],
                      i + 1)

update_cells ==
    /\ status = "running"
    /\ LET r == update_from(grid, sprites, 1)
       IN  /\ sprites' = r.sprites
           /\ ret' = Call("update_cells", NoArgs, Returned(r.result, Unit))
           /\ status' = after(r.result)
    /\ UNCHANGED <<overflow_checks, grid, views, marker>>

Next ==
    \/ \E d \in Dims(MaxCells) : spawn_grid(d[1], d[2])
    \/ \E cell_pos \in Probe(grid) : call_cell_pos_to_index(cell_pos)
    \/ \E cell_pos \in Probe(grid) : call_cell(cell_pos)
    \/ call_iter_cell_pos
    \/ \E cell_pos \in Probe(grid), c \in Cells : call_set_cell(cell_pos, c)
    \/ \E cell_pos \in Probe(grid), c \in Cells : call_cell_mut(cell_pos, c)

Spec == Init /\ [][Next]_vars

NextEditor ==
    \/ \E d \in Dims(MaxCells) : spawn_grid(d[1], d[2])
    \/ \E cell_pos \in Probe(grid), c \in Cells : call_set_cell(cell_pos, c)
    \/ \E cell_pos \in Probe(grid), c \in Cells : call_cell_mut(cell_pos, c)
    \/ randomize_cells
    \/ spawn_view

SpecEditor == Init /\ [][NextEditor]_vars

NextSync ==
    \/ \E d \in Dims(MaxSyncCells) : spawn_grid(d[1], d[2])
    \/ randomize_cells
    \/ \E cell_pos \in Probe(grid) : spawn_cell(cell_pos)
    \/ update_cells

SpecSync == Init /\ [][NextSync]_vars

(***************************************************************************)
(* Grids whose sides reach the limits of u32, probed at positions around   *)
(* the origin and at 2^16.                                                 *)
(***************************************************************************)
\* 1, 2, 2^16, 2^31 and 2^32 - 1.
WideSides == {<<0, 1>>, <<0, 2>>, <<1, 0>>, <<HalfLimb, 0>>, <<Limb - 1, Limb - 1>>}

WidePositions ==
    {CellPos(x, y) : x \in {-1, 0, 1, Limb}, y \in {-1, 0, 1, Limb}}

NextWide ==
    \/ \E width \in WideSides, height \in WideSides : spawn_grid(width, height)
    \/ \E cell_pos \in WidePositions : call_cell(cell_pos)
    \/ \E cell_pos \in WidePositions, c \in Cells : call_cell_mut(cell_pos, c)

SpecWide == Init /\ [][NextWide]_vars

(***************************************************************************)
(* The properties.                                                         *)
(***************************************************************************)
\* i < u for an integer i >= 0 and a u32 u, as numbers.
Below(i, u) ==
    (i \div Limb) < u[1] \/ ((i \div Limb) = u[1] /\ (i % Limb) < u[2])

\* 0 <= x < width and 0 <= y < height, as numbers.
InRect(g, cell_pos) ==
    /\ cell_pos[1] >= 0 /\ Below(cell_pos[1], g.width)
    /\ cell_pos[2] >= 0 /\ Below(cell_pos[2], g.height)

Valid(g) == {q \in Probe(g) : InRect(g, q)}

IsOk(r, v) == r.tag = "Ok" /\ r.val = v

SameResult(a, b) == a.tag = b.tag /\ a.val = b.val

\* C1: on a grid built by Grid::new(width, height), cell_pos_to_index of a
\* position with 0 <= x < width and 0 <= y < height returns Ok(width*y + x),
\* that index is in [0, width*height), and no other valid position of the
\* grid has the same index.
C1_IndexRowMajorInjective ==
    (ret.op = "cell_pos_to_index" /\ InRect(grid, ret.args.cell_pos)) =>
        LET w == Nat32(grid.width)
            h == Nat32(grid.height)
            x == ret.args.cell_pos[1]
            y == ret.args.cell_pos[2]
        IN  /\ ret.result.tag = "Ok" /\ ret.result.index = U32(w * y + x)
            /\ w * y + x >= 0 /\ w * y + x < w * h
            /\ \A q \in Valid(grid) \ {ret.args.cell_pos} :
                   ~IsOk(cell_pos_to_index(grid, q), ret.result.index)

C1_Witness ==
    /\ ret.op = "cell_pos_to_index"
    /\ ret.args.cell_pos = CellPos(1, 1)
    /\ ret.result.tag = "Ok" /\ ret.result.index = U32(3)
    /\ grid.cells.walls # {}

\* C2: for a position with x < 0 or y < 0 or x >= width or y >= height
\* (every position, on a grid whose width or height is 0), each of
\* cell_pos_to_index, cell, set_cell and cell_mut returns the OutOfBounds
\* error carrying that position, and leaves width, height and every cell as
\* they were.
C2_OutOfBoundsRejectedUnchanged ==
    [][(ret'.op \in {"cell_pos_to_index", "cell", "set_cell", "cell_mut"}
        /\ ~InRect(grid, ret'.args.cell_pos))
       => /\ ret'.result.tag = "Err"
          /\ ret'.result.err = OutOfBounds(ret'.args.cell_pos)
          /\ grid' = grid]_vars

C2_Witness ==
    /\ ret.op = "set_cell"
    /\ ret.args = [cell_pos |-> CellPos(2, 1), cell |-> Cell(TRUE)]
    /\ grid.width = U32(2) /\ grid.height = U32(2)
    /\ ret.result.tag = "Err" /\ ret.result.err = OutOfBounds(CellPos(2, 1))

\* C3: set_cell(pos, c) at a valid position succeeds, a cell(pos) that
\* follows it returns c, and cell(q) at every other valid position q returns
\* what it returned before the set_cell.
C3_SetCellRoundTrip ==
    [][(ret'.op = "set_cell" /\ InRect(grid, ret'.args.cell_pos))
       => /\ ret'.result.tag = "Ok"
          /\ IsOk(cell(grid', ret'.args.cell_pos), ret'.args.cell)
          /\ \A q \in Valid(grid) \ {ret'.args.cell_pos} :
                 SameResult(cell(grid', q), cell(grid, q))]_vars

C3_Witness ==
    /\ ret.op = "set_cell"
    /\ ret.args = [cell_pos |-> CellPos(0, 1), cell |-> Cell(FALSE)]
    /\ ret.result.tag = "Ok"
    /\ grid.cells.walls # {}

\* C4: iter_cell_pos on a grid of width w and height h yields w*h items with
\* pairwise distinct positions, every position satisfies contains_pos, each
\* is paired with the cell now stored there, and the expect never fails; for
\* w = 0 or h = 0 it yields nothing.
C4_IterYieldsEveryCellOnce ==
    ret.op = "iter_cell_pos" =>
        /\ ret.result.tag = "Ok"
        /\ LET items == ret.result.items
               w == Nat32(grid.width)
               h == Nat32(grid.height)
           IN  /\ Len(items) = w * h
               /\ \A i, j \in 1 .. Len(items) :
                      i # j => items[i][1] # items[j][1]
               /\ \A i \in 1 .. Len(items) :
                      /\ contains_pos(grid, items[i][1])
                      /\ InRect(grid, items[i][1])
                      /\ IsOk(cell(grid, items[i][1]), items[i][2])
               /\ (w = 0 \/ h = 0) => items = <<>>

C4_Witness ==
    /\ ret.op = "iter_cell_pos"
    /\ ret.result.tag = "Ok"
    /\ Len(ret.result.items) = 4
    /\ \E i \in 1 .. 4 : ret.result.items[i][2].is_wall
    /\ \E i \in 1 .. 4 : ~ret.result.items[i][2].is_wall

\* C5: Grid::new(width, height) produces a grid of exactly width*height
\* cells, all non-wall, and after any sequence of set_cell calls, writes
\* through cell_mut and invocations of randomize_cells, succeeding or
\* failing, the number of stored cells is still width*height and width and
\* height are those of the construction.
C5_CellCountFixed ==
    [][/\ ret'.op = "spawn_grid" =>
            /\ ret'.result.tag = "Ok"
            /\ grid'.width = ret'.args.width
            /\ grid'.height = ret'.args.height
            /\ Nat32(grid'.cells.len) =
                   Nat32(ret'.args.width) * Nat32(ret'.args.height)
            /\ grid'.cells.walls = {}
       /\ status = "running" =>
            /\ grid'.width = grid.width
            /\ grid'.height = grid.height
            /\ Nat32(grid'.cells.len) = Nat32(grid.width) * Nat32(grid.height)
            /\ \A index \in grid'.cells.walls : lt_u32(index, grid'.cells.len)
      ]_vars

C5_Witness ==
    /\ ret.op = "randomize_cells"
    /\ ret.result.tag = "Ok"
    /\ grid.width = U32(2) /\ grid.height = U32(2)
    /\ grid.cells.len = U32(4)
    /\ Cardinality(grid.cells.walls) = 3

\* What an observer can read of the change notifications in the world.
Notifications ==
    IF marker.tag = "Some" THEN <<[cell_pos |-> marker.val]>> ELSE <<>>

\* C6: read-only holders of the grid need no coordination: an invocation of
\* randomize_cells on a grid with at least one cell obtains mutable access
\* and completes its edit however many GridViews hold the same grid.
C6_MutatorCompletesBesideViews ==
    (/\ ret.op = "randomize_cells"
     /\ lt_u32(U32(0), grid.width) /\ lt_u32(U32(0), grid.height))
    => ret.result.tag = "Ok"

\* C7: every successful mutation by randomize_cells adds one notification
\* with the mutated position and the new wall state of the cell to those an
\* observer can read, and the ones not yet read stay readable.
C7_EveryMutationNotified ==
    [][(ret'.op = "randomize_cells" /\ ret'.result.tag = "Ok")
       => Notifications' =
              Append(Notifications,
                     [cell_pos |-> ret'.args.cell_pos,
                      is_wall |-> cell(grid', ret'.args.cell_pos).val.is_wall])]_vars

\* C8: on a grid with width >= 1 and height >= 1 that only the editor
\* holds, one invocation of randomize_cells picks a position inside the
\* grid, so that no unwrap fails, and negates is_wall of that one cell;
\* every other cell, the width and the height stay as they were.
C8_MutatorFlipsOneCell ==
    [][(/\ ret'.op = "randomize_cells"
        /\ views = 0
        /\ lt_u32(U32(0), grid.width) /\ lt_u32(U32(0), grid.height))
       => /\ ret'.result.tag = "Ok"
          /\ InRect(grid, ret'.args.cell_pos)
          /\ grid'.width = grid.width /\ grid'.height = grid.height
          /\ grid'.cells.len = grid.cells.len
          /\ \A q \in Valid(grid) :
                 /\ cell(grid, q).tag = "Ok"
                 /\ IsOk(cell(grid', q),
                         Cell(IF q = ret'.args.cell_pos
                              THEN ~cell(grid, q).val.is_wall
                              ELSE cell(grid, q).val.is_wall))]_vars

C8_Witness ==
    /\ ret.op = "randomize_cells"
    /\ ret.result.tag = "Ok"
    /\ ret.args.cell_pos = CellPos(1, 1)
    /\ IsOk(cell(grid, CellPos(1, 1)), Cell(FALSE))
    /\ grid.cells.walls # {}

\* C9: one cycle of update_cells changes no cell of the grid; when it
\* completes, every cell entity whose position is inside the grid has the
\* colour mapped from is_wall of the grid at that position, one colour for a
\* wall and another for a non-wall; a cell entity at a position outside the
\* grid makes the cycle panic instead of being skipped.
C9_SyncProjectsGrid ==
    [][ret'.op = "update_cells"
       => /\ grid' = grid
          /\ color_of(Cell(TRUE)) # color_of(Cell(FALSE))
          /\ Len(sprites') = Len(sprites)
          /\ ret'.result.tag = "Ok" =>
                \A i \in 1 .. Len(sprites') :
                    /\ sprites'[i].cell_pos = sprites[i].cell_pos
                    /\ InRect(grid, sprites'[i].cell_pos) =>
                          /\ cell(grid, sprites'[i].cell_pos).tag = "Ok"
                          /\ sprites'[i].color =
                                 color_of(cell(grid, sprites'[i].cell_pos).val)
          /\ (\E i \in 1 .. Len(sprites) : ~InRect(grid, sprites[i].cell_pos))
                => (ret'.result.tag = "Panic" /\ status' = "panicked")]_vars

C9_Witness ==
    /\ ret.op = "update_cells"
    /\ ret.result.tag = "Ok"
    /\ Len(sprites) = 1
    /\ sprites[1].color = "BLUE"

\* C10: for every width and height of u32, every position with
\* 0 <= x < width and 0 <= y < height is accepted by contains_pos and maps to
\* an index below the number of stored cells, so that cell and cell_mut at
\* such a position return a cell and never index past the cells.
C10_ValidPositionsIndexStoredCells ==
    (ret.op \in {"cell", "cell_mut"} /\ InRect(grid, ret.args.cell_pos))
    => /\ contains_pos(grid, ret.args.cell_pos)
       /\ ret.result.tag = "Ok"
       /\ cell_pos_to_index(grid, ret.args.cell_pos).tag = "Ok"
       /\ lt_u32(cell_pos_to_index(grid, ret.args.cell_pos).val, grid.cells.len)

=============================================================================
